---- MODULE Spec2Model ----
(***************************************************************************)
(* TermiTask: the task store (src/database.py) and the recurrence engine   *)
(* (src/utils/reminders.py) as a state machine.                            *)
(*                                                                         *)
(* A text value is a TLA+ string when only its identity matters (names,    *)
(* enum labels) and a tuple of one-character strings when its characters   *)
(* matter (the tags column).  A due date is a record <<y, m, d, tod>> with *)
(* the format of its text: "date" (YYYY-MM-DD), "datetime"                 *)
(* (YYYY-MM-DDTHH:MM:SS) or "null" (SQL NULL / None).                      *)
(***************************************************************************)
EXTENDS Integers, Sequences, FiniteSets, TLC

VARIABLES
    users,      \* the users table: a set of rows [username, email]
    tasks,      \* the tasks table: id -> row, its domain the ids stored
    nextId,     \* the uuid4 stream: the number of ids drawn so far
    now,        \* the wall clock: [y, m, d, tod]
    scanPc,     \* check_and_update_recurring_tasks: "idle" or "loop"
    scanList,   \* the rows get_tasks returned to the scan, not yet processed
    scans,      \* scans that have returned or raised
    ops,        \* calls made and clock ticks seen so far
    last,       \* the last call: [op, ret], ret its success
    deleted     \* history: the ids of the rows delete_task has removed

vars == <<users, tasks, nextId, now, scanPc, scanList, scans, ops, last,
          deleted>>

----------------------------------------------------------------------------
(* Bounds of the model *)

MaxTasks == 2
MaxOps == 4

----------------------------------------------------------------------------
(* Values *)

NULL == "NULL"

Usernames == {"alice", "bob"}
Emails == {"a@x", "b@x"}

PRIORITIES == {"low", "medium", "high", "critical"}
STATUSES == {"pending", "completed"}

COLUMNS == {"id", "title", "description", "due_date", "priority", "status",
            "tags", "recurrence", "created_at", "created_by", "assigned_to"}

NoDate == [y |-> 0, m |-> 0, d |-> 0, tod |-> 0, fmt |-> "null"]

DateText(y, m, d) == [y |-> y, m |-> m, d |-> d, tod |-> 0, fmt |-> "date"]

----------------------------------------------------------------------------
(* The calendar of datetime: proleptic Gregorian ordinals *)

IsLeap(y) == (y % 4 = 0) /\ ((y % 100 # 0) \/ (y % 400 = 0))

DaysInMonth(y, m) ==
    IF m = 2 THEN (IF IsLeap(y) THEN 29 ELSE 28)
    ELSE IF m \in {4, 6, 9, 11} THEN 30 ELSE 31

RECURSIVE DaysBeforeMonth(_, _)
DaysBeforeMonth(y, m) ==
    IF m <= 1 THEN 0 ELSE DaysBeforeMonth(y, m - 1) + DaysInMonth(y, m - 1)

DaysBeforeYear(y) ==
    (y - 1) * 365 + ((y - 1) \div 4) - ((y - 1) \div 100) + ((y - 1) \div 400)

ToOrdinal(dt) == DaysBeforeYear(dt.y) + DaysBeforeMonth(dt.y, dt.m) + dt.d

FromOrdinal(n, tod) ==
    LET y == CHOOSE yy \in (n \div 366)..((n \div 365) + 1) :
                 DaysBeforeYear(yy) < n /\ n <= DaysBeforeYear(yy + 1)
        r == n - DaysBeforeYear(y)
        m == CHOOSE mm \in 1..12 :
                 DaysBeforeMonth(y, mm) < r
                 /\ r <= DaysBeforeMonth(y, mm) + DaysInMonth(y, mm)
    IN [y |-> y, m |-> m, d |-> r - DaysBeforeMonth(y, m), tod |-> tod]

\* datetime + timedelta(days=n)
AddDays(dt, n) == FromOrdinal(ToOrdinal(dt) + n, dt.tod)

\* datetime.replace(day=d): a ValueError when the month has no such day
ReplaceDayOk(dt, d) == d >= 1 /\ d <= DaysInMonth(dt.y, dt.m)

ReplaceDay(dt, d) == [dt EXCEPT !.d = d]

\* datetime <= datetime
DtLE(a, b) ==
    LET oa == ToOrdinal(a)
        ob == ToOrdinal(b)
    IN oa < ob \/ (oa = ob /\ a.tod <= b.tod)

\* datetime < datetime
DtLT(a, b) == DtLE(a, b) /\ ~DtLE(b, a)

\* text < text on two ISO texts: "YYYY-MM-DD" is a proper prefix of
\* "YYYY-MM-DDTHH:MM:SS", and a proper prefix is the smaller text
TextLT(a, b) ==
    \/ ToOrdinal(a) < ToOrdinal(b)
    \/ /\ ToOrdinal(a) = ToOrdinal(b)
       /\ \/ (a.fmt = "date" /\ b.fmt = "datetime")
          \/ (a.fmt = "datetime" /\ b.fmt = "datetime" /\ a.tod < b.tod)

\* datetime.fromisoformat(text): a date-only text is midnight of that day
fromisoformat(s) ==
    [y |-> s.y, m |-> s.m, d |-> s.d,
     tod |-> IF s.fmt = "date" THEN 0 ELSE s.tod]

\* datetime.isoformat(): always the date, "T" and the time
isoformat(dt) ==
    [y |-> dt.y, m |-> dt.m, d |-> dt.d, tod |-> dt.tod, fmt |-> "datetime"]

----------------------------------------------------------------------------
(* Python and SQL helpers *)

\* dict.get(key, default)
Get(d, k, default) == IF k \in DOMAIN d THEN d[k] ELSE default

\* Python truthiness of a text value or None
Falsy(v) == v = NULL \/ v = ""

\* "".join(list): the separator is forgotten
RECURSIVE JoinNoSep(_, _)
JoinNoSep(list, sep) ==
    IF list = <<>> THEN <<>> ELSE list[1] \o JoinNoSep(Tail(list), sep)

\* sep.join(list) on texts that are tuples of characters
RECURSIVE Join(_, _)
Join(list, sep) ==
    IF list = <<>> THEN <<>>
    ELSE IF Len(list) = 1 THEN list[1]
    ELSE list[1] \o sep \o Join(Tail(list), sep)

\* text.split(sep) for a separator of one character
RECURSIVE Split(_, _)
Split(text, sep) ==
    IF \A k \in 1..Len(text) : text[k] # sep
    THEN <<text>>
    ELSE LET k == CHOOSE n \in 1..Len(text) :
                      text[n] = sep /\ \A j \in 1..(n - 1) : text[j] # sep
         IN <<SubSeq(text, 1, k - 1)>>
            \o Split(SubSeq(text, k + 1, Len(text)), sep)

\* the tag list the list command reads from a stored tags text
SplitTags(text) == IF text = <<>> THEN <<>> ELSE Split(text, ",")

\* text LIKE '%sub%'
Like(text, sub) ==
    \E i \in 0..(Len(text) - Len(sub)) :
        \A j \in 1..Len(sub) : text[i + j] = sub[j]

\* ORDER BY due_date ASC on the stored text: NULL first, then the text order,
\* in which "YYYY-MM-DD" is a proper prefix of "YYYY-MM-DDTHH:MM:SS"
DueKeyLE(a, b) ==
    \/ a.fmt = "null"
    \/ /\ b.fmt # "null"
       /\ \/ ToOrdinal(a) < ToOrdinal(b)
          \/ /\ ToOrdinal(a) = ToOrdinal(b)
             /\ \/ a.fmt = "date"
                \/ (b.fmt = "datetime" /\ a.tod <= b.tod)

\* the NOT NULL and CHECK constraints of the tasks table
RowOk(row) ==
    /\ row.title # NULL
    /\ row.priority \in PRIORITIES
    /\ row.status \in STATUSES
    /\ row.created_by # NULL

----------------------------------------------------------------------------
(* DatabaseManager: each method as a function of the tables and arguments *)

\* create_user without the UNIQUE constraint on email
create_user_username_only(us, username, email) ==
    IF \E u \in us : u.username = username
    THEN [ret |-> FALSE, users |-> us]
    ELSE [ret |-> TRUE,
          users |-> us \cup {[username |-> username, email |-> email]}]

\* create_user: the new users table and the result
create_user(us, username, email) ==
    IF \E u \in us : u.username = username \/ u.email = email
    THEN [ret |-> FALSE, users |-> us]
    ELSE [ret |-> TRUE,
          users |-> us \cup {[username |-> username, email |-> email]}]

\* the row create_task inserts
NewRow(task_data, task_id, clock) ==
    [id |-> task_id,
     title |-> task_data.title,
     description |-> Get(task_data, "description", ""),
     due_date |-> Get(task_data, "due_date", NoDate),
     priority |-> Get(task_data, "priority", "medium"),
     status |-> Get(task_data, "status", "pending"),
     tags |-> IF "tags" \in DOMAIN task_data
              THEN Join(task_data.tags, <<",">>) ELSE <<>>,
     recurrence |-> Get(task_data, "recurrence", NULL),
     created_at |-> clock,
     created_by |-> task_data.created_by,
     assigned_to |-> Get(task_data, "assigned_to", NULL)]

\* create_task: ok when the new id is returned (None otherwise); drawn tells
\* whether uuid4 ran
create_task(ts, task_data, uuid, clock) ==
    IF Falsy(Get(task_data, "title", NULL))
       \/ Falsy(Get(task_data, "created_by", NULL))
    THEN [ok |-> FALSE, drawn |-> FALSE, tasks |-> ts]
    ELSE LET row == NewRow(task_data, uuid, clock)
         IN IF RowOk(row) /\ uuid \notin DOMAIN ts
            THEN [ok |-> TRUE, drawn |-> TRUE,
                  tasks |-> [i \in DOMAIN ts \cup {uuid} |->
                                IF i = uuid THEN row ELSE ts[i]]]
            ELSE [ok |-> FALSE, drawn |-> TRUE, tasks |-> ts]

\* an UPDATE that resets the status it was not given
MergeResetStatus(row, updates) ==
    [c \in COLUMNS |-> IF c \in DOMAIN updates THEN updates[c]
                       ELSE IF c = "status" THEN "pending" ELSE row[c]]

\* the row an UPDATE ... SET k = ? leaves
Merge(row, updates) ==
    [c \in COLUMNS |-> IF c \in DOMAIN updates THEN updates[c] ELSE row[c]]

update_task(ts, task_id, updates) ==
    IF DOMAIN updates = {} \/ ~(DOMAIN updates \subseteq COLUMNS)
    THEN [ret |-> FALSE, tasks |-> ts]
    ELSE IF task_id \notin DOMAIN ts
    THEN [ret |-> TRUE, tasks |-> ts]
    ELSE LET row == Merge(ts[task_id], updates)
         IN IF ~RowOk(row) \/ (row.id # task_id /\ row.id \in DOMAIN ts)
            THEN [ret |-> FALSE, tasks |-> ts]
            ELSE [ret |-> TRUE,
                  tasks |-> [i \in (DOMAIN ts \ {task_id}) \cup {row.id} |->
                                IF i = row.id THEN row ELSE ts[i]]]

delete_task(ts, task_id) ==
    [ret |-> TRUE, tasks |-> [i \in DOMAIN ts \ {task_id} |-> ts[i]]]

\* assign_task without "AND created_by = ?"
assign_task_any_assigner(us, ts, task_id, assigner, assignee) ==
    IF ~(\E u \in us : u.username = assignee)
    THEN [ret |-> FALSE, tasks |-> ts]
    ELSE IF task_id \in DOMAIN ts
    THEN [ret |-> TRUE,
          tasks |-> [ts EXCEPT ![task_id].assigned_to = assignee]]
    ELSE [ret |-> FALSE, tasks |-> ts]

\* assign_task that counts only the rows whose assigned_to changed
assign_task_changed_rows(us, ts, task_id, assigner, assignee) ==
    IF ~(\E u \in us : u.username = assignee)
    THEN [ret |-> FALSE, tasks |-> ts]
    ELSE IF task_id \in DOMAIN ts /\ ts[task_id].created_by = assigner
    THEN [ret |-> ts[task_id].assigned_to # assignee,
          tasks |-> [ts EXCEPT ![task_id].assigned_to = assignee]]
    ELSE [ret |-> FALSE, tasks |-> ts]

assign_task(us, ts, task_id, assigner, assignee) ==
    IF ~(\E u \in us : u.username = assignee)
    THEN [ret |-> FALSE, tasks |-> ts]
    ELSE IF task_id \in DOMAIN ts /\ ts[task_id].created_by = assigner
    THEN [ret |-> TRUE,
          tasks |-> [ts EXCEPT ![task_id].assigned_to = assignee]]
    ELSE [ret |-> FALSE, tasks |-> ts]

\* the WHERE clause with the username test on created_by alone
MatchesOwnerOnly(row, filters) ==
    /\ ~Falsy(Get(filters, "username", NULL)) =>
           row.created_by = filters.username
    /\ Get(filters, "tags", <<>>) # <<>> =>
           \E k \in 1..Len(filters.tags) : Like(row.tags, filters.tags[k])
    /\ ~Falsy(Get(filters, "priority", NULL)) =>
           row.priority = filters.priority
    /\ ~Falsy(Get(filters, "status", NULL)) => row.status = filters.status

\* get_tasks: the WHERE clause; a filter key the code does not read is ignored
Matches(row, filters) ==
    /\ ~Falsy(Get(filters, "username", NULL)) =>
           (row.created_by = filters.username
            \/ row.assigned_to = filters.username)
    /\ Get(filters, "tags", <<>>) # <<>> =>
           \E k \in 1..Len(filters.tags) : Like(row.tags, filters.tags[k])
    /\ ~Falsy(Get(filters, "priority", NULL)) =>
           row.priority = filters.priority
    /\ ~Falsy(Get(filters, "status", NULL)) => row.status = filters.status

\* get_tasks with sort="due_date", reverse=False: every order the ORDER BY
\* allows (rows with equal keys come in no defined order)
get_tasks(ts, filters) ==
    LET S == {ts[i] : i \in {j \in DOMAIN ts : Matches(ts[j], filters)}}
        n == Cardinality(S)
    IN {s \in [1..n -> S] :
            /\ \A i, j \in 1..n : i # j => s[i] # s[j]
            /\ \A i, j \in 1..n :
                   i < j => DueKeyLE(s[i].due_date, s[j].due_date)}

\* get_user_tasks: every order get_tasks may return
get_user_tasks(ts, username) == get_tasks(ts, [username |-> username])

\* the overdue filter of the list command: a comparison of texts
overdue_list(t, clock) ==
    /\ t.due_date.fmt # "null"
    /\ TextLT(t.due_date, isoformat(clock))
    /\ t.status # "completed"

\* the overdue test of get_user_productivity: a comparison of datetimes
overdue_stats(t, clock) ==
    /\ t.status # "completed"
    /\ t.due_date.fmt # "null"
    /\ DtLT(fromisoformat(t.due_date), clock)

----------------------------------------------------------------------------
(* The recurrence engine *)

\* calculate_next_occurrence with daily and weekly steps that stay inside the
\* month of the due date
calculate_next_occurrence_in_month(due_date, recurrence) ==
    LET wrap(n) == ReplaceDay(due_date,
                       ((due_date.d - 1 + n)
                            % DaysInMonth(due_date.y, due_date.m)) + 1)
    IN IF recurrence = "daily"
       THEN [raised |-> FALSE, value |-> wrap(1)]
       ELSE IF recurrence = "weekly"
       THEN [raised |-> FALSE, value |-> wrap(7)]
       ELSE IF recurrence = "monthly"
       THEN LET later == AddDays(ReplaceDay(due_date, 1), 32)
            IN IF ReplaceDayOk(later, due_date.d)
               THEN [raised |-> FALSE, value |-> ReplaceDay(later, due_date.d)]
               ELSE [raised |-> TRUE, value |-> due_date]
       ELSE [raised |-> FALSE, value |-> due_date]

\* calculate_next_occurrence: raised when datetime.replace throws ValueError
calculate_next_occurrence(due_date, recurrence) ==
    IF recurrence = "daily"
    THEN [raised |-> FALSE, value |-> AddDays(due_date, 1)]
    ELSE IF recurrence = "weekly"
    THEN [raised |-> FALSE, value |-> AddDays(due_date, 7)]
    ELSE IF recurrence = "monthly"
    THEN LET later == AddDays(ReplaceDay(due_date, 1), 32)
         IN IF ReplaceDayOk(later, due_date.d)
            THEN [raised |-> FALSE, value |-> ReplaceDay(later, due_date.d)]
            ELSE [raised |-> TRUE, value |-> due_date]
    ELSE [raised |-> FALSE, value |-> due_date]

\* the test of the loop body: a due date is there and is not after the clock
Elapsed(task, clock) ==
    task.due_date.fmt # "null" /\ DtLE(fromisoformat(task.due_date), clock)

\* the loop body with a rollover that also clears the row's recurrence
ScanBodyClearsRecurrence(ts, task, clock) ==
    IF ~Elapsed(task, clock)
    THEN [raised |-> FALSE, wrote |-> FALSE, tasks |-> ts]
    ELSE LET next == calculate_next_occurrence(
                         fromisoformat(task.due_date), task.recurrence)
             updated_task == [task EXCEPT !.due_date = isoformat(next.value),
                                          !.recurrence = NULL]
         IN IF next.raised
            THEN [raised |-> TRUE, wrote |-> FALSE, tasks |-> ts]
            ELSE [raised |-> FALSE, wrote |-> TRUE,
                  tasks |-> update_task(ts, task.id, updated_task).tasks]

\* one iteration of the loop of check_and_update_recurring_tasks on a row
\* the scan read earlier
\* (the next occurrence is computed once and bound, as in the code)
ScanBody(ts, task, clock) ==
    IF ~Elapsed(task, clock)
    THEN [raised |-> FALSE, wrote |-> FALSE, tasks |-> ts]
    ELSE CHOOSE result \in
             { LET updated_task ==
                       [task EXCEPT !.due_date = isoformat(next.value)]
               IN IF next.raised
                  THEN [raised |-> TRUE, wrote |-> FALSE, tasks |-> ts]
                  ELSE [raised |-> FALSE, wrote |-> TRUE,
                        tasks |-> update_task(ts, task.id, updated_task).tasks]
               : next \in {calculate_next_occurrence(
                               fromisoformat(task.due_date), task.recurrence)} }
             : TRUE

----------------------------------------------------------------------------
(* Inputs *)

Ids == 0..MaxTasks

StartTime == [y |-> 2024, m |-> 2, d |-> 10, tod |-> 1]

W == <<"w">>
U == <<"u">>
HW == <<"h", "w">>

TaskInputs ==
    { [title |-> "t", created_by |-> "alice"],
      [title |-> "t", created_by |-> "alice", description |-> "",
       due_date |-> DateText(2024, 1, 15), priority |-> "high",
       tags |-> <<W, U>>, recurrence |-> "monthly", assigned_to |-> "bob"],
      [title |-> "t", created_by |-> "bob", description |-> "",
       due_date |-> DateText(2024, 2, 10), priority |-> "medium",
       tags |-> <<HW>>, recurrence |-> NULL, assigned_to |-> NULL],
      [title |-> "", created_by |-> "alice"],
      [title |-> "t"],
      [title |-> "t", created_by |-> "bob", priority |-> "urgent"],
      [title |-> "t", created_by |-> "bob", status |-> "done"] }

Patches ==
    { <<>>,
      [status |-> "completed"],
      [priority |-> "low", tags |-> W],
      [status |-> "done", description |-> "d"],
      [priority |-> "urgent"],
      [due_date |-> DateText(2024, 2, 11)],
      [created_by |-> "bob"],
      [assigned_to |-> "bob"],
      [id |-> 0],
      [id |-> 1] }

NoCall == [op |-> "none", ret |-> FALSE]

Call(op, ret) == [op |-> op, ret |-> ret]

----------------------------------------------------------------------------
(* The state machine *)

Init ==
    /\ users = {}
    /\ tasks = <<>>
    /\ nextId = 0
    /\ now = StartTime
    /\ scanPc = "idle"
    /\ scanList = <<>>
    /\ scans = 0
    /\ ops = 0
    /\ last = NoCall
    /\ deleted = {}

CreateUser(username, email) ==
    /\ ops < MaxOps
    /\ LET r == create_user(users, username, email)
       IN /\ users' = r.users
          /\ last' = Call("create_user", r.ret)
    /\ ops' = ops + 1
    /\ UNCHANGED <<tasks, nextId, now, scanPc, scanList, scans, deleted>>

CreateTask(task_data) ==
    /\ ops < MaxOps
    /\ nextId < MaxTasks
    /\ LET r == create_task(tasks, task_data, nextId + 1, now)
       IN /\ tasks' = r.tasks
          /\ nextId' = IF r.drawn THEN nextId + 1 ELSE nextId
          /\ last' = Call("create_task", r.ok)
    /\ ops' = ops + 1
    /\ UNCHANGED <<users, now, scanPc, scanList, scans, deleted>>

UpdateTask(task_id, updates) ==
    /\ ops < MaxOps
    /\ LET r == update_task(tasks, task_id, updates)
       IN /\ tasks' = r.tasks
          /\ last' = Call("update_task", r.ret)
    /\ ops' = ops + 1
    /\ UNCHANGED <<users, nextId, now, scanPc, scanList, scans, deleted>>

DeleteTask(task_id) ==
    /\ ops < MaxOps
    /\ LET r == delete_task(tasks, task_id)
       IN /\ tasks' = r.tasks
          /\ last' = Call("delete_task", r.ret)
    /\ ops' = ops + 1
    /\ deleted' = IF task_id \in DOMAIN tasks THEN deleted \cup {task_id}
                  ELSE deleted
    /\ UNCHANGED <<users, nextId, now, scanPc, scanList, scans>>

AssignTask(task_id, assigner, assignee) ==
    /\ ops < MaxOps
    /\ LET r == assign_task(users, tasks, task_id, assigner, assignee)
       IN /\ tasks' = r.tasks
          /\ last' = Call("assign_task", r.ret)
    /\ ops' = ops + 1
    /\ UNCHANGED <<users, nextId, now, scanPc, scanList, scans, deleted>>

\* the wall clock moves on: midnight, then later that day
Tick ==
    /\ ops < MaxOps
    /\ now' = IF now.tod = 0 THEN [now EXCEPT !.tod = 1]
              ELSE AddDays([now EXCEPT !.tod = 0], 1)
    /\ ops' = ops + 1
    /\ UNCHANGED <<users, tasks, nextId, scanPc, scanList, scans, last, deleted>>

\* check_and_update_recurring_tasks, line 18: the query
ScanBegin ==
    /\ scanPc = "idle"
    /\ ops < MaxOps
    /\ scanList' \in get_tasks(tasks, [recurrence |-> TRUE])
    /\ scanPc' = "loop"
    /\ last' = Call("scan_begin", TRUE)
    /\ ops' = ops + 1
    /\ UNCHANGED <<users, tasks, nextId, now, scans, deleted>>

\* lines 19-25: the loop body on the next row read; a ValueError ends the scan
ScanStep ==
    /\ scanPc = "loop"
    /\ scanList # <<>>
    /\ LET task == Head(scanList)
           r == ScanBody(tasks, task, now)
       IN /\ tasks' = r.tasks
          /\ scanList' = IF r.raised THEN <<>> ELSE Tail(scanList)
          /\ scanPc' = IF r.raised THEN "idle" ELSE "loop"
          /\ scans' = IF r.raised THEN scans + 1 ELSE scans
          /\ last' = Call(IF r.raised THEN "scan_raise"
                          ELSE IF r.wrote THEN "scan_write" ELSE "scan_skip",
                          ~r.raised)
    /\ UNCHANGED <<users, nextId, now, ops, deleted>>

\* the loop is over: the scan returns
ScanEnd ==
    /\ scanPc = "loop"
    /\ scanList = <<>>
    /\ scanPc' = "idle"
    /\ scans' = scans + 1
    /\ last' = Call("scan_end", TRUE)
    /\ UNCHANGED <<users, tasks, nextId, now, scanList, ops, deleted>>

Next ==
    \/ \E u \in Usernames, e \in Emails : CreateUser(u, e)
    \/ \E td \in TaskInputs : CreateTask(td)
    \/ \E i \in Ids, p \in Patches : UpdateTask(i, p)
    \/ \E i \in Ids : DeleteTask(i)
    \/ \E i \in Ids, a \in Usernames, b \in Usernames : AssignTask(i, a, b)
    \/ Tick
    \/ ScanBegin
    \/ ScanStep
    \/ ScanEnd

Spec == Init /\ [][Next]_vars

----------------------------------------------------------------------------
(* The recurrence engine alone: a store that holds tasks entered with the  *)
(* add command, a clock that stands still, and scans run one after another *)

\* the task_data the add command builds for a due date and a recurrence
AddInput(due_date, recurrence) ==
    [title |-> "t", description |-> "", due_date |-> due_date,
     priority |-> "medium", tags |-> <<>>, recurrence |-> recurrence,
     created_by |-> "alice", assigned_to |-> NULL]

ScanInputs ==
    { AddInput(DateText(2024, 2, 7), "daily"),
      AddInput(DateText(2024, 2, 10), "daily"),
      AddInput(DateText(2024, 2, 11), "daily"),
      AddInput(NoDate, "daily"),
      AddInput(DateText(2024, 1, 31), "daily"),
      AddInput(DateText(2023, 12, 31), "daily"),
      AddInput(DateText(2024, 1, 22), "weekly"),
      AddInput(DateText(2023, 12, 28), "weekly"),
      AddInput(DateText(2024, 1, 15), "monthly"),
      AddInput(DateText(2024, 1, 31), "monthly"),
      AddInput(DateText(2023, 12, 31), "monthly"),
      AddInput(DateText(2024, 2, 1), NULL),
      AddInput(NoDate, NULL) }

ScanNows == {StartTime, [StartTime EXCEPT !.tod = 0]}

\* the store after create_task on inputs[1], ..., inputs[n] at time clock
RECURSIVE CreateAll(_, _, _)
CreateAll(inputs, n, clock) ==
    IF n = 0 THEN <<>>
    ELSE create_task(CreateAll(inputs, n - 1, clock), inputs[n], n, clock).tasks

InitScan ==
    /\ users = {}
    /\ \E n \in 1..MaxTasks : \E inputs \in [1..n -> ScanInputs] :
           /\ now \in ScanNows
           /\ tasks = CreateAll(inputs, n, now)
           /\ nextId = n
    /\ scanPc = "idle"
    /\ scanList = <<>>
    /\ scans = 0
    /\ ops = 0
    /\ last = Call("create_task", TRUE)
    /\ deleted = {}

NextScan ==
    \/ ScanBegin
    \/ ScanStep
    \/ ScanEnd

SpecScan == InitScan /\ [][NextScan]_vars

----------------------------------------------------------------------------
(* The reminder daemon alone: a stored task set, a fixed clock, and the scan
   run again and again, each run as one step *)

\* check_and_update_recurring_tasks on the rows it read, from the first row
\* to the last or to the row that raises
RECURSIVE RunScan(_, _, _)
RunScan(ts, list, clock) ==
    IF list = <<>> THEN [raised |-> FALSE, tasks |-> ts]
    ELSE CHOOSE result \in
             { IF r.raised THEN [raised |-> TRUE, tasks |-> ts]
               ELSE RunScan(r.tasks, Tail(list), clock)
               : r \in {ScanBody(ts, Head(list), clock)} }
             : TRUE

\* start_reminder_daemon: the scheduler runs the scan once more
DaemonRun ==
    /\ \E list \in get_tasks(tasks, [recurrence |-> TRUE]) :
           \E r \in {RunScan(tasks, list, now)} :
               /\ tasks' = r.tasks
               /\ last' = Call("scan", ~r.raised)
    /\ UNCHANGED <<users, nextId, now, scanPc, scanList, scans, ops, deleted>>

NextDaemon == DaemonRun

\* the scheduler never stops running the scan
SpecDaemon == InitScan /\ [][NextDaemon]_vars /\ WF_vars(DaemonRun)

----------------------------------------------------------------------------
(* Properties of the store *)

IsUser(name) == \E u \in users : u.username = name

\* C1: assign_task succeeds exactly when the assignee is a user and the task
\* exists with created_by = assigner; a failed call changes no task.
C1_AssignIffOwnerAndUser ==
    [][(ops' # ops /\ last'.op = "assign_task") =>
          \A i \in Ids, a \in Usernames, b \in Usernames :
              AssignTask(i, a, b) =>
                  /\ last'.ret <=>
                         (IsUser(b) /\ i \in DOMAIN tasks
                          /\ tasks[i].created_by = a)
                  /\ ~last'.ret => tasks' = tasks]_vars

\* the last call was an assign_task that succeeded
C1_Witness ==
    /\ last.op = "assign_task"
    /\ last.ret
    /\ \E i \in DOMAIN tasks : tasks[i].assigned_to # NULL

\* C5: update_task on an id that is not stored returns False and changes
\* nothing.
C5_UpdateMissingFails ==
    [][\A i \in Ids, p \in Patches :
          (UpdateTask(i, p) /\ i \notin DOMAIN tasks) =>
              (~last'.ret /\ tasks' = tasks /\ users' = users)]_vars

\* C6: delete_task on an id that is not stored reports success=false and
\* changes nothing.
C6_DeleteMissingFails ==
    [][\A i \in Ids :
          (DeleteTask(i) /\ i \notin DOMAIN tasks) =>
              (~last'.ret /\ tasks' = tasks /\ users' = users)]_vars

\* C7: no step other than a delete removes an id from the store or changes
\* the created_by stored under it.
C7_IdAndOwnerImmutable ==
    [][(\E j \in Ids : DeleteTask(j)) \/
       \A i \in DOMAIN tasks :
           /\ i \in DOMAIN tasks'
           /\ tasks'[i].id = tasks[i].id
           /\ tasks'[i].created_by = tasks[i].created_by]_vars

\* C8: assigned_to of a stored task changes only in a successful assign_task
\* made by the task's owner.
C8_OnlyOwnerReassigns ==
    [][\A i \in DOMAIN tasks \cap DOMAIN tasks' :
          tasks'[i].assigned_to # tasks[i].assigned_to =>
              \E b \in Usernames :
                  AssignTask(i, tasks[i].created_by, b) /\ last'.ret]_vars

\* C4: a write of the scan changes no column but due_date of any stored row,
\* whatever was committed since the scan read its rows.
C4_ScanWritesOnlyDueDate ==
    [][ScanStep =>
          \A i \in DOMAIN tasks :
              /\ i \in DOMAIN tasks'
              /\ \A c \in COLUMNS \ {"due_date"} :
                     tasks'[i][c] = tasks[i][c]]_vars

\* C9: a successful update_task of a stored task gives every column of the
\* patch the patch's value, keeps every other column, and changes no other
\* row.
C9_PartialPatch ==
    [][(ops' # ops /\ last' = Call("update_task", TRUE)) =>
          \A i \in DOMAIN tasks, p \in Patches :
              UpdateTask(i, p) =>
                  LET j == IF "id" \in DOMAIN p THEN p.id ELSE i
                  IN /\ DOMAIN tasks' = (DOMAIN tasks \ {i}) \cup {j}
                     /\ \A c \in COLUMNS :
                            tasks'[j][c] =
                                IF c \in DOMAIN p THEN p[c] ELSE tasks[i][c]
                     /\ \A k \in DOMAIN tasks \ {i, j} :
                            tasks'[k] = tasks[k]]_vars

\* two rows are stored and one of them was updated away from its defaults
C9_Witness ==
    /\ last.op = "update_task"
    /\ last.ret
    /\ Cardinality(DOMAIN tasks) = 2
    /\ \E i \in DOMAIN tasks : tasks[i].status = "completed"

UsersDistinct ==
    \A x \in users, y \in users :
        x # y => (x.username # y.username /\ x.email # y.email)

\* C10: create_user with a username or an email already stored fails and
\* leaves the users table as it was; usernames and emails stay pairwise
\* distinct.
C10_DuplicateUserFails ==
    /\ []UsersDistinct
    /\ [][(ops' # ops /\ last'.op = "create_user") =>
             \A u \in Usernames, e \in Emails :
                 (CreateUser(u, e)
                  /\ \E x \in users : x.username = u \/ x.email = e) =>
                     (~last'.ret /\ users' = users)]_vars

\* a create_user was refused while two users are stored
C10_Witness ==
    /\ last.op = "create_user"
    /\ ~last.ret
    /\ Cardinality(users) = 2

\* a task_data or a patch names a priority or a status outside the enums
BadEnum(d) ==
    \/ ("priority" \in DOMAIN d /\ d.priority \notin PRIORITIES)
    \/ ("status" \in DOMAIN d /\ d.status \notin STATUSES)

EnumsValid ==
    \A i \in DOMAIN tasks :
        tasks[i].priority \in PRIORITIES /\ tasks[i].status \in STATUSES

\* C11: create_task without a title or a created_by, create_task with a
\* priority or status outside the enums, and update_task with such a priority
\* or status all report failure and leave the store as it was; every stored
\* task has its priority and status in the enums.
C11_ValidationNeverMutates ==
    /\ []EnumsValid
    /\ [][(ops' # ops /\ last'.op = "create_task") =>
             \A td \in TaskInputs :
                 (CreateTask(td)
                  /\ (Falsy(Get(td, "title", NULL))
                      \/ Falsy(Get(td, "created_by", NULL))
                      \/ BadEnum(td))) =>
                     (~last'.ret /\ tasks' = tasks)]_vars
    /\ [][(ops' # ops /\ last'.op = "update_task") =>
             \A i \in Ids, p \in Patches :
                 (UpdateTask(i, p) /\ BadEnum(p)) =>
                     (~last'.ret /\ tasks' = tasks)]_vars

\* C12: after a successful create_task, get_tasks with no filter returns a
\* row with the new id whose columns are the input's values, the defaults for
\* what the input leaves out, and a tags text that splits back into the
\* input's tag list.
C12_CreateThenQuery ==
    [][(ops' # ops /\ last' = Call("create_task", TRUE)) =>
          \A td \in TaskInputs :
              CreateTask(td) =>
                  /\ get_tasks(tasks', <<>>) # {}
                  /\ \A s \in get_tasks(tasks', <<>>) :
                         \E k \in 1..Len(s) :
                             /\ s[k].id = nextId'
                             /\ s[k].title = td.title
                             /\ s[k].created_by = td.created_by
                             /\ s[k].description = Get(td, "description", "")
                             /\ s[k].priority = Get(td, "priority", "medium")
                             /\ s[k].status = Get(td, "status", "pending")
                             /\ s[k].due_date = Get(td, "due_date", NoDate)
                             /\ s[k].recurrence = Get(td, "recurrence", NULL)
                             /\ s[k].assigned_to = Get(td, "assigned_to", NULL)
                             /\ SplitTags(s[k].tags) = Get(td, "tags", <<>>)]_vars

\* the task created last holds two tags
C12_Witness ==
    /\ last = Call("create_task", TRUE)
    /\ nextId \in DOMAIN tasks
    /\ SplitTags(tasks[nextId].tags) = <<W, U>>

\* the rows of a result of get_tasks
Rows(s) == {s[k] : k \in 1..Len(s)}

\* the stored rows that satisfy P
Stored(P(_)) == {tasks[i] : i \in {j \in DOMAIN tasks : P(tasks[j])}}

TagFilters == {<<W>>, <<U>>, <<HW>>, <<U, HW>>}

TagQueries ==
    {[tags |-> f] : f \in TagFilters}
    \cup {[tags |-> f, status |-> "pending"] : f \in TagFilters}

\* one of the tags asked for is one of the row's tags
HasAnyTag(row, wanted) ==
    \E k \in 1..Len(wanted) :
        \E n \in 1..Len(SplitTags(row.tags)) :
            SplitTags(row.tags)[n] = wanted[k]

\* C13: get_tasks with a tags filter returns exactly the stored tasks that
\* have one of the given tags as a whole tag and satisfy the other filters.
C13_TagFilterWholeTag ==
    \A q \in TagQueries :
        LET Wanted(row) ==
                /\ HasAnyTag(row, q.tags)
                /\ ("status" \in DOMAIN q => row.status = q.status)
        IN \A s \in get_tasks(tasks, q) : Rows(s) = Stored(Wanted)

\* C14: get_tasks with the filter username = u, and get_user_tasks(u),
\* return exactly the stored tasks that u created or is assigned.
C14_VisibleToUser ==
    \A u \in Usernames :
        LET Visible(row) == row.created_by = u \/ row.assigned_to = u
        IN /\ get_user_tasks(tasks, u) # {}
           /\ \A s \in get_user_tasks(tasks, u)
                         \cup get_tasks(tasks, [username |-> u]) :
                  Rows(s) = Stored(Visible)

\* an owner has assigned a task to another user, who now sees it, while a
\* user who neither owns it nor is assigned it does not
C14_Witness ==
    /\ last = Call("assign_task", TRUE)
    /\ \E i \in DOMAIN tasks :
           /\ tasks[i].created_by = "bob"
           /\ tasks[i].assigned_to = "alice"
           /\ \A s \in get_user_tasks(tasks, "alice") : tasks[i] \in Rows(s)

\* C16: assign_task by the owner to the user who is already assigned_to
\* succeeds and leaves the store as it was; the same successful assign made
\* once more succeeds and changes nothing.
C16_ReassignIdempotent ==
    [][(ops' # ops /\ last'.op = "assign_task") =>
          \A i \in DOMAIN tasks, b \in Usernames :
              AssignTask(i, tasks[i].created_by, b) =>
                  /\ (IsUser(b) /\ tasks[i].assigned_to = b) =>
                         (last'.ret /\ tasks' = tasks)
                  /\ last'.ret =>
                         assign_task(users', tasks', i, tasks[i].created_by, b)
                             = [ret |-> TRUE, tasks |-> tasks']]_vars

\* the only three calls were create_user, create_task of a task already
\* assigned to bob, and the owner's successful assign of it to bob
C16_Witness ==
    /\ ops = 3
    /\ last = Call("assign_task", TRUE)
    /\ Cardinality(users) = 1
    /\ \E i \in DOMAIN tasks :
           /\ tasks[i].priority = "high"
           /\ tasks[i].created_by = "alice"
           /\ tasks[i].assigned_to = "bob"

----------------------------------------------------------------------------
(* Properties of the recurrence engine *)

\* C2: once a scan has returned, a scan run straight after it under the same
\* clock changes no due_date.
C2_SecondScanChangesNothing ==
    [][(scans >= 1 /\ ScanStep) =>
          \A i \in DOMAIN tasks : tasks'[i].due_date = tasks[i].due_date]_vars

\* the month after month m of year y, as <<year, month>>
MonthAfter(y, m) == IF m = 12 THEN <<y + 1, 1>> ELSE <<y, m + 1>>

\* C3: the scan moves an elapsed monthly task to a valid date of the month
\* after its due date: the same day when the month has it, a clamped day
\* otherwise.
C3_MonthlyLandsInNextMonth ==
    [][(ScanStep /\ Head(scanList).recurrence = "monthly"
                 /\ Elapsed(Head(scanList), now)) =>
          LET old == fromisoformat(Head(scanList).due_date)
              new == tasks'[Head(scanList).id].due_date
              ym == MonthAfter(old.y, old.m)
          IN /\ <<new.y, new.m>> = ym
             /\ new.d >= 1
             /\ new.d <= DaysInMonth(ym[1], ym[2])
             /\ (old.d <= DaysInMonth(ym[1], ym[2]) => new.d = old.d)]_vars

\* C17: every iteration of the scan ends normally and goes on to the next
\* row read, and an iteration on a recurring row whose due date has elapsed
\* moves that row's due date forward.
C17_ScanNeverRaises ==
    [][ScanStep =>
          LET task == Head(scanList)
          IN /\ last'.op # "scan_raise"
             /\ scanList' = Tail(scanList)
             /\ (task.recurrence # NULL /\ Elapsed(task, now)) =>
                    DtLT(fromisoformat(task.due_date),
                         fromisoformat(tasks'[task.id].due_date))]_vars

\* C18: an iteration of the scan on a row whose recurrence is null issues no
\* update and leaves the store as it was.
C18_NullRecurrenceUntouched ==
    [][(ScanStep /\ Head(scanList).recurrence = NULL) =>
          (last'.op = "scan_skip" /\ tasks' = tasks)]_vars

\* C19: an iteration of the scan on a recurring row changes the row's
\* due_date exactly when the row has a due date that is not after the clock,
\* and changes nothing at all otherwise.
C19_DueDateChangesIffElapsed ==
    [][(ScanStep /\ Head(scanList).recurrence # NULL) =>
          LET task == Head(scanList)
          IN /\ (tasks'[task.id].due_date # tasks[task.id].due_date)
                    <=> Elapsed(task, now)
             /\ ~Elapsed(task, now) => tasks' = tasks]_vars

\* C20: an iteration of the scan, run with no other call in between, creates
\* and deletes no task, leaves every row but the one it is on as it was, and
\* changes no column of that row other than due_date.
C20_RolloverChangesOnlyDueDate ==
    [][ScanStep =>
          /\ DOMAIN tasks' = DOMAIN tasks
          /\ \A i \in DOMAIN tasks :
                 /\ \A c \in COLUMNS \ {"due_date"} : tasks'[i][c] = tasks[i][c]
                 /\ i # Head(scanList).id => tasks'[i] = tasks[i]]_vars

\* the scan has just rolled a recurring row over
C20_Witness ==
    /\ last = Call("scan_write", TRUE)
    /\ scans = 0
    /\ \E i \in DOMAIN tasks :
           /\ tasks[i].recurrence # NULL
           /\ tasks[i].due_date.fmt = "datetime"
           /\ DtLT(now, fromisoformat(tasks[i].due_date))

\* the calendar day after dt, at the same time of day
NextDay(dt) ==
    IF dt.d < DaysInMonth(dt.y, dt.m) THEN [dt EXCEPT !.d = dt.d + 1]
    ELSE IF dt.m < 12 THEN [dt EXCEPT !.m = dt.m + 1, !.d = 1]
    ELSE [dt EXCEPT !.y = dt.y + 1, !.m = 1, !.d = 1]

\* dt moved forward by n calendar days
RECURSIVE DaysLater(_, _)
DaysLater(dt, n) == IF n = 0 THEN dt ELSE DaysLater(NextDay(dt), n - 1)

\* C21: an iteration of the scan on a daily (weekly) row whose due date d has
\* elapsed leaves the row with the due date 1 (7) calendar days after d,
\* whatever the clock is.
C21_DailyWeeklyStep ==
    [][(ScanStep /\ Head(scanList).recurrence \in {"daily", "weekly"}
                 /\ Elapsed(Head(scanList), now)) =>
          LET task == Head(scanList)
              d == fromisoformat(task.due_date)
              n == IF task.recurrence = "daily" THEN 1 ELSE 7
          IN /\ last'.op = "scan_write"
             /\ fromisoformat(tasks'[task.id].due_date) = DaysLater(d, n)]_vars

\* the scan has just moved a daily row from the last day of a month, and a
\* weekly row from the last days of a year, into the month that follows
C21_Witness ==
    /\ scans = 0
    /\ scanList = <<>>
    /\ \E i \in DOMAIN tasks :
           /\ tasks[i].recurrence = "daily"
           /\ tasks[i].due_date = isoformat([y |-> 2024, m |-> 2, d |-> 1, tod |-> 0])
    /\ \E i \in DOMAIN tasks :
           /\ tasks[i].recurrence = "weekly"
           /\ tasks[i].due_date = isoformat([y |-> 2024, m |-> 1, d |-> 4, tod |-> 0])

\* C22: no id of a row that delete_task has removed is the id of a stored
\* row, whatever calls and scan steps came after the delete.
C22_DeletedStaysDeleted == deleted \cap DOMAIN tasks = {}

\* the part of C22 about the scan: no iteration of a scan brings a removed
\* row back
ScanNeverResurrects ==
    [][ScanStep => DOMAIN tasks' \subseteq DOMAIN tasks]_vars

\* every recurring task that has a due date has it strictly after the clock
AllRolledOver ==
    \A i \in DOMAIN tasks :
        (tasks[i].recurrence # NULL /\ tasks[i].due_date.fmt # "null") =>
            DtLT(now, fromisoformat(tasks[i].due_date))

\* C23: with the clock fixed and the scan run again and again, from some scan
\* on every recurring task that has a due date has it strictly after the
\* clock, for good.
C23_ScansConverge == <>[]AllRolledOver

\* C15: the overdue filters keep a task exactly when it has a due date, the
\* due date is strictly before the clock, and its status is not completed.
C15_OverdueStrictlyBeforeNow ==
    \A i \in DOMAIN tasks :
        LET t == tasks[i]
            expected == /\ t.due_date.fmt # "null"
                        /\ DtLT(fromisoformat(t.due_date), now)
                        /\ t.status # "completed"
        IN /\ overdue_list(t, now) <=> expected
           /\ overdue_stats(t, now) <=> expected

====
